---- MODULE Spec2Model ----
(***************************************************************************)
(* A model of the fantasy-sports ingestion scripts: the SQLite persistence *)
(* layer (db/database.py), the API client's paging (yahoo_api.py), the     *)
(* loaders' retry and paging loops (load/*.py), DataManager.update_data    *)
(* (db/data_manager.py), the stats extraction                              *)
(* (load/load_players_stats_data.py) and the dashboard's SQL               *)
(* (db/dashboard.py).                                                      *)
(*                                                                         *)
(* The scripts are independent programs, so the module holds one           *)
(* specification per program; the variables of the programs a              *)
(* specification does not run stay at their idle values.                   *)
(***************************************************************************)
EXTENDS Integers, Sequences, FiniteSets, TLC

VARIABLES
    db,          \* the SQLite file: table name -> set of committed rows
    lastSaved,   \* history: keyed table -> key -> {fields of the last successful save}
    dm,          \* DataManager.update_data: the last call and what it produced
    rb,          \* load_players_batch (load_players_data.py): the retry loop
    gp,          \* YahooFantasyAPI.get_players: the last call and its result
    ex,          \* extract_player_stats: the arguments and the result
    ui,          \* dashboard: the widgets' values and the statement last executed
    mp,          \* load_missing_players: the paging loop for one game code
    ld,          \* load_players_data: the paging loop for game 449
    ro,          \* load_league_rosters: the connection and its rosters table
    lg,          \* the league_games table
    dr,          \* DraftDataLoader: the connection and its draft results
    tm           \* Database.save_team: the last call and its outcome

vars == <<db, lastSaved, dm, rb, gp, ex, ui, mp, ld, ro, lg, dr, tm>>

\* The loaders of load_players_data.py, load_league_rosters.py,
\* load_games_schedule.py and load_draft_data.py, and the caller of save_team.
loaders == <<ld, ro, lg, dr, tm>>

(***************************************************************************)
(* Shared helpers                                                          *)
(***************************************************************************)
Max(S) == CHOOSE x \in S : \A y \in S : y <= x

Min2(a, b) == IF a <= b THEN a ELSE b

RECURSIVE Pow2(_)
Pow2(n) == IF n = 0 THEN 1 ELSE 2 * Pow2(n - 1)

Range(s) == {s[i] : i \in 1..Len(s)}

(***************************************************************************)
(* The persistence layer, db/database.py                                   *)
(***************************************************************************)
\* Tables whose declared PRIMARY KEY is the entity's key column.
KeyedTables == {"players", "teams", "leagues", "games", "league_settings"}

\* Tables whose only key is "id INTEGER PRIMARY KEY AUTOINCREMENT".
AutoIdTables == {"league_standings", "league_scoreboard", "league_rosters",
                 "league_points", "league_schedules", "league_draft_results",
                 "player_stats", "team_managers", "team_stats"}

Tables == KeyedTables \cup AutoIdTables

\* The column(s) the schema declares unique for a table: the key column of a
\* keyed table, the autoincrement id of the others (no UNIQUE constraint on
\* league/team/week/pick/player is declared).
UniqueColumn(t) == IF t \in KeyedTables THEN "key" ELSE "id"

Keys == {"k1", "k2"}
Vals == {"v1", "v2"}
Missing == "missing"     \* a dict without the entry: dict[...] raises KeyError

\* Cap on the rows of the whole database (keeps the state space finite).
MaxRows == 3

TotalRows(d) == LET RECURSIVE Sum(_)
                    Sum(S) == IF S = {} THEN 0
                              ELSE LET t == CHOOSE x \in S : TRUE
                                   IN Cardinality(d[t]) + Sum(S \ {t})
                IN Sum(Tables)

\* AUTOINCREMENT: one more than the largest id the table has held; rows of
\* these tables are never deleted, so that is the largest id present.
NextId(rows) == IF rows = {} THEN 1 ELSE Max({r.id : r \in rows}) + 1

\* The row an INSERT builds. A keyed table's implicit rowid is not modelled (0).
NewRow(t, rows, key, val) ==
    [id |-> IF t \in KeyedTables THEN 0 ELSE NextId(rows), key |-> key, val |-> val]

\* INSERT with no conflict handling at all (what the statement would do were
\* no uniqueness constraint declared, or were it ignored).
InsertNoReplace(rows, col, r) == rows \cup {r}

\* SQLite's INSERT OR REPLACE: delete every row that conflicts with the new
\* one on a declared unique column, then insert.
InsertOrReplace(rows, col, r) == {x \in rows : x[col] # r[col]} \cup {r}

Upsert(d, t, key, val) ==
    [d EXCEPT ![t] = InsertOrReplace(d[t], UniqueColumn(t), NewRow(t, d[t], key, val))]

\* Inputs of the save methods: a dict whose required entries may be missing.
SaveInputs == [key : Keys \cup {Missing}, sport_code : {"nfl", Missing}, val : Vals]

\* A save "succeeds" when the statement executes and commit() runs; otherwise
\* the except branch rolls back and the database is as before the call.
ValidEntity(rec) == rec.key # Missing /\ rec.sport_code # Missing

\* save_player / save_league / save_game: one INSERT OR REPLACE, commit; on
\* any exception log and rollback (the exception is swallowed).
SaveKeyed(d, t, rec) == IF ValidEntity(rec) THEN Upsert(d, t, rec.key, rec.val) ELSE d

save_player(d, rec) == SaveKeyed(d, "players", rec)
save_league(d, rec) == SaveKeyed(d, "leagues", rec)
save_game(d, rec) == SaveKeyed(d, "games", rec)

\* save_league_settings needs only settings_data['league_key'].
save_league_settings(d, rec) ==
    IF rec.key # Missing THEN Upsert(d, "league_settings", rec.key, rec.val) ELSE d

\* team_data['stats'] as save_team looks at it.
StatsKinds == {"absent", "empty", "manager", "badmanager", "stat", "statfails"}

TeamInputs == [key : Keys \cup {Missing}, sport_code : {"nfl", Missing},
               val : Vals, stats : StatsKinds]

\* No rollback: what the transaction wrote stays.
KeepPending(before, pending) == pending

\* self.conn.rollback(): what the transaction wrote is discarded.
Rollback(before, pending) == before

\* save_team: BEGIN; INSERT OR REPLACE INTO teams; the manager row when
\* stats has a 'manager'; one team_stats row per other stat; commit. Any
\* exception (a missing key before anything is written; a manager that is
\* not a dict, after the teams row; "statfails": a team_stats insert that
\* fails, after the teams and the manager row) rolls the transaction back
\* and is re-raised.
save_team(d, rec) ==
    IF ~ValidEntity(rec)
    THEN [db |-> Rollback(d, d), raised |-> TRUE]
    ELSE LET d1 == Upsert(d, "teams", rec.key, <<rec.val, rec.stats>>)
             d2 == IF rec.stats \in {"manager", "statfails"}
                   THEN Upsert(d1, "team_managers", rec.key, rec.val)
                   ELSE d1
             d3 == IF rec.stats = "stat"
                   THEN Upsert(d2, "team_stats", rec.key, rec.val)
                   ELSE d2
         IN IF rec.stats = "badmanager" THEN [db |-> Rollback(d, d1), raised |-> TRUE]
            ELSE IF rec.stats = "statfails" THEN [db |-> Rollback(d, d2), raised |-> TRUE]
            ELSE [db |-> d3, raised |-> FALSE]

\* Inputs of the id-keyed tables' save methods (they need no sport_code).
RecordInputs == [key : Keys \cup {Missing}, val : Vals]

\* The save methods of the id-keyed tables: one INSERT OR REPLACE, commit; on
\* any exception log and rollback.
SaveAutoId(d, t, rec) == IF rec.key # Missing THEN Upsert(d, t, rec.key, rec.val) ELSE d

save_league_standings(d, rec) == SaveAutoId(d, "league_standings", rec)
save_league_scoreboard(d, rec) == SaveAutoId(d, "league_scoreboard", rec)
save_league_roster(d, rec) == SaveAutoId(d, "league_rosters", rec)
save_league_points(d, rec) == SaveAutoId(d, "league_points", rec)
save_league_schedule(d, rec) == SaveAutoId(d, "league_schedules", rec)
save_player_stats(d, rec) == SaveAutoId(d, "player_stats", rec)

\* save_league_draft_results takes a list: one INSERT OR REPLACE per pick and
\* a single commit after the loop; an exception on any pick rolls all back.
RECURSIVE InsertPicks(_, _)
InsertPicks(d, picks) ==
    IF picks = <<>> THEN d
    ELSE InsertPicks(Upsert(d, "league_draft_results", Head(picks).key, Head(picks).val),
                     Tail(picks))

save_league_draft_results(d, picks) ==
    IF \E i \in 1..Len(picks) : picks[i].key = Missing THEN d ELSE InsertPicks(d, picks)

MaxPicks == 2

PickLists == UNION {[1..n -> RecordInputs] : n \in 0..MaxPicks}

EmptyDb == [t \in Tables |-> {}]

NoHistory == [t \in KeyedTables |-> [k \in Keys |-> {}]]

\* Record a successful keyed save in the history.
Remember(h, t, key, val) == [h EXCEPT ![t][key] = {val}]

(***************************************************************************)
(* The API client's player paging, yahoo_api.py                            *)
(***************************************************************************)
\* The players the service lists for a game, in listing order.
AllPlayers == <<"k1", "k2", "k3", "k4">>

\* Cap on the number of players the service lists.
MaxPlayers == 3

Listing(total) == SubSeq(AllPlayers, 1, total)

\* The body of /players;start=S;count=C: the players at offsets S .. S+C-1
\* that exist, numbered "0", "1", ... and a "count" entry giving how many
\* players this response holds (the loaders advance start by it).
Response(listing, start, count) ==
    LET page == SubSeq(listing, start + 1, Min2(start + count, Len(listing)))
    IN [count |-> Len(page), players |-> page]

\* has_more as get_players computes it from what it calls total_available.
HasMore(start, count, total_available) == (start + count) < total_available

\* get_players: make_request (an HTTP error propagates); an empty players
\* collection is skipped; total_available is the collection's "count"; the
\* players whose key is not in existing_player_keys are returned.
get_players(listing, fails, start, count, existing) ==
    IF fails THEN [raised |-> TRUE]
    ELSE LET resp == Response(listing, start, count)
             total_available == IF resp.players = <<>> THEN 0 ELSE resp.count
             new == SelectSeq(resp.players, LAMBDA k : existing = {} \/ k \notin existing)
         IN [raised |-> FALSE,
             players |-> new,
             total_available |-> total_available,
             new_players_found |-> Len(new),
             has_more |-> HasMore(start, count, total_available)]

(***************************************************************************)
(* DataManager.update_data, db/data_manager.py                             *)
(***************************************************************************)
DataTypes == {"players", "games", "teams", "leagues", "league_standings",
              "league_settings", "league_scoreboard"}

\* The order of the "update all" branch.
AllOrder == <<"games", "leagues", "teams", "players", "league_standings",
              "league_settings", "league_scoreboard">>

\* The API methods update_data reaches. get_teams and get_leagues catch their
\* own exceptions and return []; the others let make_request's exception out.
Endpoints == {"get_players", "get_games", "get_teams", "get_leagues",
              "get_league_standings", "get_league_settings", "get_league_scoreboard"}

\* The endpoints a data type's update calls.
Relevant(dt) ==
    CASE dt = "players" -> {"get_players"}
      [] dt = "games" -> {"get_games"}
      [] dt = "teams" -> {"get_teams"}
      [] dt = "leagues" -> {"get_leagues"}
      [] dt = "league_standings" -> {"get_leagues", "get_league_standings"}
      [] dt = "league_settings" -> {"get_leagues", "get_league_settings"}
      [] dt = "league_scoreboard" -> {"get_leagues", "get_league_scoreboard"}
      [] OTHER -> Endpoints

\* Cap on the length of the listings the API returns to update_data.
MaxItems == 2

\* What the API lists: teams, and the keys of the user's games and leagues
\* (an entry may lack its key).
ApiTeamLists == UNION {[1..n -> [key : {"k1", Missing}, val : {"v1"}, stats : {"empty"}]]
                          : n \in 0..MaxItems}
ApiItemLists == {<<>>, <<"k1">>, <<Missing>>, <<"k1", Missing>>}

\* A returned dict (its keys and its 'status'), or a raised exception.
\* attempted / fetched count the teams save_team was called for / get_teams
\* returned, when the call ran the teams update.
Returned(keys, status, d, attempted, fetched) ==
    [raised |-> FALSE, keys |-> keys, status |-> status, db |-> d,
     attempted |-> attempted, fetched |-> fetched]

Raised(d, attempted, fetched) ==
    [raised |-> TRUE, keys |-> {}, status |-> "none", db |-> d,
     attempted |-> attempted, fetched |-> fetched]

RECURSIVE SavePlayers(_, _)
SavePlayers(d, keys) ==
    IF keys = <<>> THEN d
    ELSE SavePlayers(save_player(d, [key |-> Head(keys), sport_code |-> "nfl", val |-> "v1"]),
                     Tail(keys))

\* _update_players: the stored keys, one get_players call, save each new player.
update_players(d, env) ==
    LET existing == IF env.use_db THEN {r.key : r \in d["players"]} ELSE {}
        res == get_players(Listing(MaxPlayers), "get_players" \in env.fails,
                           0, env.count, existing)
    IN IF res.raised THEN Raised(d, 0, 0)
       ELSE IF res.players = <<>>
            THEN Returned({"status", "message", "count", "has_more"}, "success", d, 0, 0)
            ELSE Returned({"status", "message", "count", "has_more", "total_available"},
                          "success",
                          IF env.use_db THEN SavePlayers(d, res.players) ELSE d, 0, 0)

RECURSIVE SaveKeys(_, _, _)
SaveKeys(d, t, keys) ==
    IF keys = <<>> THEN d
    ELSE SaveKeys(SaveKeyed(d, t, [key |-> Head(keys), sport_code |-> "nfl", val |-> "v1"]),
                  t, Tail(keys))

\* _update_games: get_games (an HTTP error propagates), save_game each.
update_games(d, env) ==
    IF "get_games" \in env.fails THEN Raised(d, 0, 0)
    ELSE Returned({"status", "count"}, "success",
                  IF env.use_db THEN SaveKeys(d, "games", env.items) ELSE d, 0, 0)

\* The for loop of _update_teams: save_team re-raises, nothing catches it
\* inside the loop, so the first failing team ends the loop.
RECURSIVE SaveTeams(_, _, _)
SaveTeams(d, teams, n) ==
    IF teams = <<>> THEN [db |-> d, raised |-> FALSE, attempted |-> n]
    ELSE LET t == Head(teams)
             out == CHOOSE o \in {save_team(d, [key |-> t.key, sport_code |-> "nfl",
                                                val |-> t.val, stats |-> t.stats])} : TRUE
         IN IF out.raised THEN [db |-> out.db, raised |-> TRUE, attempted |-> n + 1]
            ELSE SaveTeams(out.db, Tail(teams), n + 1)

\* _update_teams: get_teams returns [] on any error.
update_teams(d, env) ==
    LET teams == IF "get_teams" \in env.fails THEN <<>> ELSE env.teams
    IN IF ~env.use_db THEN Returned({"status", "count"}, "success", d, 0, Len(teams))
       ELSE LET out == CHOOSE o \in {SaveTeams(d, teams, 0)} : TRUE
            IN IF out.raised THEN Raised(out.db, out.attempted, Len(teams))
               ELSE Returned({"status", "count"}, "success", out.db,
                             out.attempted, Len(teams))

FetchedLeagues(env) == IF "get_leagues" \in env.fails THEN <<>> ELSE env.items

\* _update_leagues: get_leagues returns [] on any error; save_league each.
update_leagues(d, env) ==
    Returned({"status", "count"}, "success",
             IF env.use_db THEN SaveKeys(d, "leagues", FetchedLeagues(env)) ELSE d, 0, 0)

\* _update_league_standings / _settings / _scoreboard: for each league read
\* league['league_key'] (KeyError when absent), fetch (an HTTP error
\* propagates) and hand the raw response to the save method, which finds no
\* 'league_key' in it, logs and rolls back.
update_league_detail(d, env, endpoint) ==
    LET leagues == FetchedLeagues(env)
    IN IF leagues # <<>> /\ (endpoint \in env.fails \/ Missing \in Range(leagues))
       THEN Raised(d, 0, 0)
       ELSE Returned({"status", "count"}, "success", d, 0, 0)

Dispatch(d, env, dt) ==
    CASE dt = "players" -> update_players(d, env)
      [] dt = "games" -> update_games(d, env)
      [] dt = "teams" -> update_teams(d, env)
      [] dt = "leagues" -> update_leagues(d, env)
      [] dt = "league_standings" -> update_league_detail(d, env, "get_league_standings")
      [] dt = "league_settings" -> update_league_detail(d, env, "get_league_settings")
      [] dt = "league_scoreboard" -> update_league_detail(d, env, "get_league_scoreboard")

\* No except clause: the exception leaves update_data.
Uncaught(out) == out

\* update_data's "except Exception": log, return {"status": "error", "message": ...}.
Caught(out) ==
    IF out.raised
    THEN Returned({"status", "message"}, "error", out.db, out.attempted, out.fetched)
    ELSE out

\* One data type, as the nested self.update_data(data_type=dt) runs it.
UpdateOne(d, env, dt) == Caught(Dispatch(d, env, dt))

\* The "update all" branch: results[dt] = self.update_data(data_type=dt) for
\* the seven types in order, then {"status": "success", **results}.
RECURSIVE UpdateAll(_, _, _, _)
UpdateAll(d, env, todo, acc) ==
    IF todo = <<>>
    THEN [raised |-> FALSE, keys |-> {"status"} \cup DataTypes, status |-> "success",
          db |-> d, attempted |-> acc.attempted, fetched |-> acc.fetched,
          sub |-> acc.sub]
    ELSE LET one == CHOOSE o \in {UpdateOne(d, env, Head(todo))} : TRUE
         IN IF one.raised
            THEN [raised |-> TRUE, keys |-> {}, status |-> "none", db |-> one.db,
                  attempted |-> one.attempted, fetched |-> one.fetched, sub |-> acc.sub]
            ELSE UpdateAll(one.db, env, Tail(todo),
                           [attempted |-> IF Head(todo) = "teams" THEN one.attempted
                                          ELSE acc.attempted,
                            fetched |-> IF Head(todo) = "teams" THEN one.fetched
                                        ELSE acc.fetched,
                            sub |-> [acc.sub EXCEPT ![Head(todo)] = one.status]])

NoSub == [dt \in DataTypes |-> "none"]

WithSub(out) == [raised |-> out.raised, keys |-> out.keys, status |-> out.status,
                 db |-> out.db, attempted |-> out.attempted, fetched |-> out.fetched,
                 sub |-> NoSub]

\* update_data: without an API client return the error dict at once;
\* otherwise dispatch on data_type inside try/except.
update_data(d, env, dt) ==
    IF ~env.hasApi
    THEN WithSub(Returned({"status", "message"}, "error", d, 0, 0))
    ELSE IF dt \in DataTypes
         THEN WithSub(Caught(Dispatch(d, env, dt)))
         ELSE LET all == CHOOSE o \in {UpdateAll(d, env, AllOrder,
                                   [attempted |-> 0, fetched |-> 0, sub |-> NoSub])} : TRUE
              IN IF all.raised
                 THEN WithSub(Caught(Raised(all.db, all.attempted, all.fetched)))
                 ELSE all

(***************************************************************************)
(* load_players_batch and wait_with_backoff, load/load_players_data.py     *)
(***************************************************************************)
\* base_wait, in seconds, and max_retries (the defaults of the signatures).
BaseWait == 2
MaxRetries == 3

\* Time is counted in 1/JitterSteps of a second; random.uniform(0, 1) is one
\* of 0/JitterSteps .. (JitterSteps-1)/JitterSteps.
JitterSteps == 4

\* A backoff that grows linearly with the retry count.
WaitTimeLinear(retry_count, jitter) ==
    BaseWait * (2 * retry_count) * JitterSteps + jitter

\* wait_with_backoff: base_wait * (2 ** retry_count) + random.uniform(0, 1).
WaitTime(retry_count, jitter) ==
    BaseWait * Pow2(retry_count) * JitterSteps + jitter

\* What one make_request call gives load_players_batch: a body without
\* 'fantasy_content' (or a falsy body), a 'game' list shorter than 2, a body
\* without players, a page of players, or an exception (an HTTP error that
\* make_request re-raises, after its own re-send on a 401).
Outcomes == {"nofc", "short", "noplayers", "ok", "exception"}

\* The outcomes the loop retries while retry_count < max_retries.
Retried == {"nofc", "short", "exception"}

(***************************************************************************)
(* extract_player_stats, load/load_players_stats_data.py                   *)
(***************************************************************************)
DigitChars == <<"0", "1", "2", "3", "4", "5", "6", "7", "8", "9">>

DigitVal(c) == (CHOOSE i \in 1..Len(DigitChars) : DigitChars[i] = c) - 1

AllDigits(s) == \A i \in 1..Len(s) : s[i] \in Range(DigitChars)

RECURSIVE DigitsVal(_)
DigitsVal(s) == IF s = <<>> THEN 0
                ELSE DigitsVal(SubSeq(s, 1, Len(s) - 1)) * 10 + DigitVal(s[Len(s)])

RECURSIVE Pow10(_)
Pow10(n) == IF n = 0 THEN 1 ELSE 10 * Pow10(n - 1)

Negative(s) == s # <<>> /\ Head(s) = "-"

Unsigned(s) == IF Negative(s) THEN Tail(s) ELSE s

\* Python's int(str): an optional sign and at least one digit; anything else
\* raises ValueError (ok = FALSE).
ParseInt(s) ==
    IF Unsigned(s) # <<>> /\ AllDigits(Unsigned(s))
    THEN [ok |-> TRUE, val |-> (IF Negative(s) THEN -1 ELSE 1) * DigitsVal(Unsigned(s))]
    ELSE [ok |-> FALSE, val |-> 0]

\* A float is kept as num/den with den a power of ten and no trailing zero
\* in num.
RECURSIVE Reduced(_, _)
Reduced(num, den) == IF den > 1 /\ num % 10 = 0 THEN Reduced(num \div 10, den \div 10)
                     ELSE [num |-> num, den |-> den]

Zero == [num |-> 0, den |-> 1]

\* Python's float(str) on signed decimal text: an optional sign, digits with
\* at most one point and at least one digit; anything else raises ValueError.
ParseFloat(s) ==
    LET body == Unsigned(s)
        dots == {i \in 1..Len(body) : body[i] = "."}
    IN IF Cardinality(dots) > 1 THEN [ok |-> FALSE, val |-> Zero]
       ELSE LET dot == IF dots = {} THEN Len(body) + 1 ELSE CHOOSE i \in dots : TRUE
                ip == SubSeq(body, 1, dot - 1)
                fp == SubSeq(body, dot + 1, Len(body))
            IN IF (ip = <<>> /\ fp = <<>>) \/ ~AllDigits(ip) \/ ~AllDigits(fp)
               THEN [ok |-> FALSE, val |-> Zero]
               ELSE [ok |-> TRUE,
                     val |-> Reduced((IF Negative(s) THEN -1 ELSE 1)
                                        * (DigitsVal(ip) * Pow10(Len(fp)) + DigitsVal(fp)),
                                     Pow10(Len(fp)))]

\* season_map.get(game_id)
SeasonOf(game_id) ==
    CASE game_id = 449 -> "2024"
      [] game_id = 423 -> "2023"
      [] game_id = 406 -> "2022"
      [] game_id = 399 -> "2021"
      [] game_id = 390 -> "2020"
      [] OTHER -> "None"

\* league_key.split('.')[0]
FirstSegment(s) ==
    LET dots == {i \in 1..Len(s) : s[i] = "."}
    IN IF dots = {} THEN s
       ELSE SubSeq(s, 1, (CHOOSE i \in dots : \A j \in dots : i <= j) - 1)

\* Cap on the length of the text of player_points.total.
MaxLen == 3

TotalAlphabet == {"6", "0", ".", "-", "x"}

TotalTexts == UNION {[1..n -> TotalAlphabet] : n \in 0..MaxLen}

\* A JSON value of the payload: absent, null, a dict, or text.
Absent == [kind |-> "absent", s |-> <<>>]
Null == [kind |-> "null", s |-> <<>>]
ADict == [kind |-> "dict", s |-> <<>>]
Text(s) == [kind |-> "str", s |-> s]

PercentValues == {Absent, ADict, Text(<<"3", "5">>), Text(<<"8", "0">>), Text(<<"-">>)}

\* The player payload: shape is "pair" for a list of at least two elements
\* whose second is a dict; stats is how player_stats.stats looks ("badstat":
\* an entry whose 'stat' is not a dict); points is how player_points looks.
Payloads ==
    {p \in [shape : {"pair", "other"},
            percent_started : PercentValues, percent_owned : PercentValues,
            stats : {"ok", "badstat"},
            points : {"absent", "nondict", "dict"},
            total : {Absent, Null} \cup {Text(t) : t \in TotalTexts}] :
        /\ p.points # "dict" => p.total = Absent
        /\ p.shape = "other" =>
               (p.percent_started = Absent /\ p.percent_owned = Absent
                /\ p.stats = "ok" /\ p.points = "absent")}

NoLeagueKey == <<>>

LeagueKeys == {NoLeagueKey,
               <<"4", "4", "9", ".", "l", ".", "1">>,
               <<"4", "2", "3", ".", "l", ".", "7">>,
               <<"n", "f", "l", ".", "l", ".", "1">>}

Weeks == {1, 17}

\* The dict the except branch returns.
Fallback(week) ==
    [week |-> week, season |-> "None", points |-> Zero, fan_points |-> Zero,
     projected_points |-> Zero, percent_started |-> 0, percent_owned |-> 0,
     failed |-> TRUE]

\* float(total) inside the inner try: '-' gives 0.0, a ValueError or
\* TypeError gives 0.0.
PointsOf(p) ==
    IF p.points # "dict" THEN Zero
    ELSE IF p.total = Absent THEN ParseFloat(<<"0">>).val
    ELSE IF p.total.kind # "str" THEN Zero
    ELSE IF p.total.s = <<"-">> THEN Zero
    ELSE ParseFloat(p.total.s).val

\* int(player_stats.get(...)): a dict or null raises TypeError, text that is
\* no integer raises ValueError.
PercentOf(v) == IF v.kind = "str" THEN ParseInt(v.s) ELSE [ok |-> FALSE, val |-> 0]

\* extract_player_stats: season from the league key, then (for a "pair"
\* payload) the percents, the stats and the points; any exception outside
\* the inner try of the points ends in the except branch.
extract_player_stats(p, week, league_key) ==
    LET game == ParseInt(FirstSegment(league_key))
        season == IF league_key = NoLeagueKey THEN "None" ELSE SeasonOf(game.val)
        ps == PercentOf(p.percent_started)
        po == PercentOf(p.percent_owned)
    IN IF league_key # NoLeagueKey /\ ~game.ok THEN Fallback(week)
       ELSE IF p.shape # "pair"
       THEN [week |-> week, season |-> season, points |-> Zero, fan_points |-> Zero,
             projected_points |-> Zero, percent_started |-> 0, percent_owned |-> 0,
             failed |-> FALSE]
       ELSE IF p.percent_started # Absent /\ ~ps.ok THEN Fallback(week)
       ELSE IF p.percent_owned # Absent /\ ~po.ok THEN Fallback(week)
       ELSE IF p.stats = "badstat" THEN Fallback(week)
       ELSE [week |-> week, season |-> season,
             points |-> PointsOf(p), fan_points |-> PointsOf(p),
             projected_points |-> Zero,
             percent_started |-> IF p.percent_started = Absent THEN 0 ELSE ps.val,
             percent_owned |-> IF p.percent_owned = Absent THEN 0 ELSE po.val,
             failed |-> FALSE]

(***************************************************************************)
(* Dashboard queries, db/dashboard.py                                      *)
(***************************************************************************)
\* What the persisted tables hold for the dashboard's select boxes.
Seasons == {"2024", "2023"}

LeaguesOf(season) == IF season = "2024" THEN {"449.l.1", "449.l.2"} ELSE {"423.l.7"}

TeamNames == {"Alpha", "Beta"}

\* Highest week the league_games table holds.
MaxWeek == 2

GameWeeks == 1..MaxWeek

\* str(week)
Str(n) == DigitChars[n + 1]

\* ','.join(map(str, selected_weeks)), in the list's order
RECURSIVE JoinWeeks(_)
JoinWeeks(weeks) ==
    IF weeks = {} THEN <<>>
    ELSE LET w == CHOOSE x \in weeks : \A y \in weeks : x <= y
         IN IF weeks = {w} THEN <<Str(w)>>
            ELSE <<Str(w), ",">> \o JoinWeeks(weeks \ {w})

\* A statement as handed to pd.read_sql_query: its text (the literal pieces
\* of the source and whatever was formatted into them, in order) and its
\* bound parameters.
Statement(name, text, params) == [name |-> name, text |-> text, params |-> params]

\* load_seasons
SeasonsQuery ==
    Statement("load_seasons",
              <<"SELECT DISTINCT season FROM leagues ORDER BY season DESC">>, <<>>)

\* load_leagues(season): f"... WHERE season = '{season}'"
LeaguesQuery(season) ==
    Statement("load_leagues",
              <<"SELECT league_key, name FROM leagues WHERE season = '", season, "'">>,
              <<>>)

\* main, League Info tab: f"... WHERE league_key = '{selected_league}'"
LeagueQuery(selected_league) ==
    Statement("league_query",
              <<"SELECT league_key, sport_code, name, season, settings, last_updated FROM leagues WHERE league_key = '",
                selected_league, "'">>,
              <<>>)

\* main, schedule: f"... WHERE t.team_key LIKE '{selected_league}.t.%' ..."
ScheduleTeamsQuery(selected_league) ==
    Statement("teams_query",
              <<"SELECT DISTINCT t.name as team_name, t.team_key FROM teams t WHERE t.team_key LIKE '",
                selected_league, ".t.%' ORDER BY t.name">>,
              <<>>)

\* main, schedule: the team name is bound, the league key is formatted in
ScheduleQuery(selected_league, selected_team) ==
    Statement("schedule_query",
              <<"WITH team_games AS (... WHERE t.name = ? AND lg.league_key = '",
                selected_league, "' ORDER BY lg.week) SELECT * FROM team_games">>,
              <<selected_team>>)

\* main, League Games: f"... WHERE league_key = '{selected_league}' ..."
WeeksQuery(selected_league) ==
    Statement("weeks_query",
              <<"SELECT DISTINCT week, ... FROM league_games WHERE league_key = '",
                selected_league, "' GROUP BY week ORDER BY week">>,
              <<>>)

\* main, League Games: league key, weeks and sort direction formatted in
GamesQuery(selected_league, selected_weeks, sort_order) ==
    Statement("games_query",
              <<"WITH game_stats AS (... WHERE lg.league_key = '", selected_league,
                "' AND lg.week IN (">> \o JoinWeeks(selected_weeks)
              \o <<")) SELECT ... FROM game_stats ORDER BY week ",
                   IF sort_order = "Latest First" THEN " DESC" ELSE "ASC",
                   ", game_start_time">>,
              <<>>)

(***************************************************************************)
(* load_missing_players, load/load_missing_players.py                      *)
(***************************************************************************)
\* Players per request (batch_size), scaled down from the source's 25.
batch_size == 2

\* load_players_batch: the needed players on the page at start; [] when every
\* attempt failed, on a 400 and when the page holds no player.
missing_players_batch(listing, outcome, start, count, needed_player_keys) ==
    IF outcome = "failed" THEN <<>>
    ELSE SelectSeq(Response(listing, start, count).players,
                   LAMBDA k : k \in needed_player_keys)

\* for player in processed_players: db.save_player(player)
RECURSIVE SaveMissing(_, _)
SaveMissing(d, players) ==
    IF players = <<>> THEN d
    ELSE SaveMissing(save_player(d, [key |-> Head(players), val |-> "v1",
                                     sport_code |-> "nfl"]),
                     Tail(players))

(***************************************************************************)
(* load_players_data, load/load_players_data.py                            *)
(***************************************************************************)
\* What load_players_batch hands back: (players, batch_count), with <<>> for
\* None. Every path that is not a page of players gives (None, 0): the
\* retries used up, a body without players, a page past the listing's end.
players_batch(listing, outcome, start, count) ==
    IF outcome = "failed" THEN [players |-> <<>>, batch_count |-> 0]
    ELSE LET resp == CHOOSE r \in {Response(listing, start, count)} : TRUE
         IN [players |-> resp.players, batch_count |-> resp.count]

\* Gives up one empty load later.
GivesUpLater(consecutive_empty) == consecutive_empty >= 4

\* if consecutive_empty >= 3: break
GivesUp(consecutive_empty) == consecutive_empty >= 3

\* The for loop over the batch: a player whose key is in
\* existing_player_keys is skipped, any other is saved and its key added.
RECURSIVE SaveNewPlayers(_, _, _)
SaveNewPlayers(d, players, existing_player_keys) ==
    IF players = <<>> THEN [db |-> d, existing_player_keys |-> existing_player_keys]
    ELSE IF Head(players) \in existing_player_keys
         THEN SaveNewPlayers(d, Tail(players), existing_player_keys)
         ELSE SaveNewPlayers(save_player(d, [key |-> Head(players), val |-> "v1",
                                             sport_code |-> "449"]),
                             Tail(players), existing_player_keys \cup {Head(players)})

\* The players table with the given keys stored for game 449.
RECURSIVE StoredPlayers(_)
StoredPlayers(keys) ==
    IF keys = {} THEN EmptyDb
    ELSE LET k == CHOOSE x \in keys : TRUE
         IN save_player(StoredPlayers(keys \ {k}),
                        [key |-> k, val |-> "v1", sport_code |-> "449"])

(***************************************************************************)
(* save_roster, load/load_league_rosters.py                                *)
(***************************************************************************)
\* The teams of the league and the weeks, and the players of a roster;
\* "incomplete" is a player record that lacks a required entry (KeyError)
\* or carries None for a NOT NULL column (IntegrityError).
RosterTeams == {"t1", "t2"}
RosterWeeks == {1, 2}
RosterPlayers == {"p1", "p2", "incomplete"}

\* Cap on the length of a roster.
MaxRoster == 2

Rosters == UNION {[1..n -> RosterPlayers] : n \in 0..MaxRoster}

\* Cap on the number of save_roster calls on one connection.
MaxSaves == 3

\* The rosters table as a connection or the file sees it: its rows and the
\* AUTOINCREMENT sequence. UNIQUE(..., date, ...) never fires, date being NULL.
EmptyRosters == [rows |-> {}, seq |-> 0]

RowsOf(table, team, week) == {r \in table.rows : r.team = team /\ r.week = week}

\* DELETE FROM rosters WHERE game_id = ? AND league_id = ? AND team_id = ? AND week = ?
DeleteRoster(table, team, week) ==
    [table EXCEPT !.rows = table.rows \ RowsOf(table, team, week)]

\* The for loop of INSERTs: stops at the first record that raises.
RECURSIVE InsertRoster(_, _, _, _)
InsertRoster(table, team, week, roster_players) ==
    IF roster_players = <<>> THEN [table |-> table, raised |-> FALSE]
    ELSE IF Head(roster_players) = "incomplete" THEN [table |-> table, raised |-> TRUE]
    ELSE InsertRoster([rows |-> table.rows \cup {[id |-> table.seq + 1, team |-> team,
                                                   week |-> week,
                                                   player |-> Head(roster_players)]},
                       seq |-> table.seq + 1],
                      team, week, Tail(roster_players))

\* save_roster on a connection [file, working]: CREATE ... IF NOT EXISTS and
\* commit (which makes durable whatever the connection has pending), DELETE,
\* INSERTs, commit. On an exception: log and raise, with the transaction
\* left open.
save_roster(conn, team, week, roster_players) ==
    LET begun == [file |-> conn.working, working |-> conn.working]
        out == CHOOSE o \in {InsertRoster(DeleteRoster(begun.working, team, week),
                                          team, week, roster_players)} : TRUE
    IN IF out.raised THEN [file |-> begun.file, working |-> out.table, raised |-> TRUE]
       ELSE [file |-> out.table, working |-> out.table, raised |-> FALSE]

NoSnapshot == [taken |-> FALSE, rows |-> {}]

NoSave == [team |-> "none", week |-> 0, roster |-> <<>>, raised |-> FALSE,
           before |-> EmptyRosters]

(***************************************************************************)
(* save_league_game, db/database.py                                        *)
(***************************************************************************)
\* A nullable column value: week and the team keys are read with
\* game_data.get(...), so an absent entry is bound as NULL.
NullWeek == [null |-> TRUE, v |-> 0]
NullTeam == [null |-> TRUE, v |-> ""]
NotNull(v) == [null |-> FALSE, v |-> v]

\* SQL's a = b: never true when a side is NULL.
SqlEq(a, b) == ~a.null /\ ~b.null /\ a.v = b.v

GameInputs == [league_key : {"lk1", Missing},
               week : {NotNull(1), NotNull(2), NullWeek},
               home_team_key : {NotNull("t1")},
               away_team_key : {NotNull("t2"), NullTeam},
               val : Vals]

\* Cap on the number of rows of league_games.
MaxGames == 3

EmptyGames == [rows |-> {}, seq |-> 0]

\* The rows the SELECT (and the UPDATE's WHERE) matches.
ExistingGames(table, game_data) ==
    {r \in table.rows : /\ r.league_key = game_data.league_key
                        /\ SqlEq(r.week, game_data.week)
                        /\ SqlEq(r.home_team_key, game_data.home_team_key)
                        /\ SqlEq(r.away_team_key, game_data.away_team_key)}

\* save_league_game: SELECT id ...; UPDATE the matching rows when one was
\* found, else INSERT; commit. game_data['league_key'] absent: KeyError,
\* logged, rollback.
save_league_game(table, game_data) ==
    IF game_data.league_key = Missing THEN table
    ELSE LET existing == ExistingGames(table, game_data)
         IN IF existing # {}
            THEN [table EXCEPT !.rows = (table.rows \ existing)
                                           \cup {[r EXCEPT !.val = game_data.val] : r \in existing}]
            ELSE [rows |-> table.rows \cup {[id |-> table.seq + 1,
                                             league_key |-> game_data.league_key,
                                             week |-> game_data.week,
                                             home_team_key |-> game_data.home_team_key,
                                             away_team_key |-> game_data.away_team_key,
                                             val |-> game_data.val]},
                  seq |-> table.seq + 1]

\* The combination a call is for.
Combination(game_data) ==
    <<game_data.league_key, game_data.week, game_data.home_team_key, game_data.away_team_key>>

Combinations == {Combination(g) : g \in {x \in GameInputs : x.league_key # Missing}}

(***************************************************************************)
(* DraftDataLoader.load_draft_results, load/load_draft_data.py             *)
(***************************************************************************)
DraftLeagues == {"lk1", "lk2"}

\* What get_draft_results gives: no usable body ("nodata"), or the picks of
\* the draft in order, a "bad" pick being one whose insert raises (a
\* draft_result that is no dict, a value sqlite3 cannot bind).
DraftPicks == UNION {[1..n -> {"ok", "bad"}] : n \in 0..MaxPicks}

\* Cap on the number of leagues load_draft_data processes on one connection.
MaxLoads == 3

EmptyDraft == [rows |-> {}, seq |-> 0]

\* The for loop of INSERT OR REPLACE statements (the table's only key is its
\* AUTOINCREMENT id): stops at the first pick that raises.
RECURSIVE InsertDraft(_, _, _)
InsertDraft(table, league_key, picks) ==
    IF picks = <<>> THEN [table |-> table, raised |-> FALSE]
    ELSE IF Head(picks) = "bad" THEN [table |-> table, raised |-> TRUE]
    ELSE InsertDraft([rows |-> table.rows \cup {[id |-> table.seq + 1,
                                                  league_key |-> league_key]},
                      seq |-> table.seq + 1],
                     league_key, Tail(picks))

\* load_draft_results on a connection [file, working]: False at once when
\* the response has no draft data; else the inserts and one commit, True;
\* on an exception log and return False, the transaction left open.
load_draft_results(conn, league_key, response) ==
    IF response.kind = "nodata"
    THEN [file |-> conn.file, working |-> conn.working, result |-> FALSE]
    ELSE LET out == CHOOSE o \in {InsertDraft(conn.working, league_key, response.picks)} : TRUE
         IN IF out.raised
            THEN [file |-> conn.file, working |-> out.table, result |-> FALSE]
            ELSE [file |-> out.table, working |-> out.table, result |-> TRUE]

DraftResponses == {[kind |-> "nodata", picks |-> <<>>]}
                      \cup {[kind |-> "picks", picks |-> p] : p \in DraftPicks}

(***************************************************************************)
(* Request timing of load_players_data, load/load_players_data.py and      *)
(* YahooFantasyAPI.make_request, yahoo_api.py                              *)
(***************************************************************************)
\* The clock of the timing model counts 1/(10 * JitterSteps) of a second.
TicksPerSecond == 10 * JitterSteps

\* wait_time = 2.1, in tenths of a second.
BatchSleepTenths == 21

BatchSleep == BatchSleepTenths * JitterSteps

\* wait_with_backoff(retry_count) on the clock of the timing model.
BackoffTicks(retry_count, jitter) == 10 * WaitTime(retry_count, jitter)

\* "under 30 requests per minute".
RequestLimit == 30
WindowSeconds == 60

Window == WindowSeconds * TicksPerSecond

\* The time one session.get takes: none to speak of, or 0.2 s.
Latencies == {0, 2 * JitterSteps}

\* make_request: session.get once, and once more when the first answer is 401.
make_request_gets(unauthorized) == IF unauthorized THEN 2 ELSE 1

(***************************************************************************)
(* Idle values of the programs' variables                                  *)
(***************************************************************************)
DmIdle == [pc |-> "idle"]
RbIdle == [pc |-> "idle", retry_count |-> 0, log |-> <<>>, result |-> "none"]
GpIdle == [pc |-> "idle", total |-> 0]
ExIdle == [pc |-> "idle"]
UiIdle == [pc |-> "idle", season |-> "none", league |-> "none", team |-> "none",
           weeks |-> {}, sort_order |-> "none",
           stmt |-> [name |-> "none", text |-> <<>>, params |-> <<>>]]
MpIdle == [pc |-> "idle", listing |-> <<>>, wanted |-> {}, needed |-> {}, start |-> 0,
           consecutive_empty |-> 0, api_failed |-> FALSE]
LdIdle == [pc |-> "idle"]
RoIdle == [pc |-> "idle"]
LgIdle == [pc |-> "idle"]
DrIdle == [pc |-> "idle"]
TmIdle == [pc |-> "idle"]

LoadersIdle == ld = LdIdle /\ ro = RoIdle /\ lg = LgIdle /\ dr = DrIdle /\ tm = TmIdle

(***************************************************************************)
(* SpecKeyed: any sequence of calls of the save methods of the keyed       *)
(* tables. SpecUpsert: the same for the id-keyed tables.                   *)
(***************************************************************************)
InitDb ==
    /\ db = EmptyDb
    /\ lastSaved = NoHistory
    /\ dm = DmIdle /\ rb = RbIdle /\ gp = GpIdle
    /\ ex = ExIdle /\ ui = UiIdle /\ mp = MpIdle
    /\ LoadersIdle

notDb == <<dm, rb, gp, ex, ui, mp, loaders>>

CallSavePlayer ==
    \E rec \in SaveInputs :
        /\ db' = save_player(db, rec)
        /\ TotalRows(db') <= MaxRows
        /\ lastSaved' = IF ValidEntity(rec)
                        THEN Remember(lastSaved, "players", rec.key, rec.val)
                        ELSE lastSaved
        /\ UNCHANGED notDb

CallSaveLeague ==
    \E rec \in SaveInputs :
        /\ db' = save_league(db, rec)
        /\ TotalRows(db') <= MaxRows
        /\ lastSaved' = IF ValidEntity(rec)
                        THEN Remember(lastSaved, "leagues", rec.key, rec.val)
                        ELSE lastSaved
        /\ UNCHANGED notDb

CallSaveGame ==
    \E rec \in SaveInputs :
        /\ db' = save_game(db, rec)
        /\ TotalRows(db') <= MaxRows
        /\ lastSaved' = IF ValidEntity(rec)
                        THEN Remember(lastSaved, "games", rec.key, rec.val)
                        ELSE lastSaved
        /\ UNCHANGED notDb

CallSaveLeagueSettings ==
    \E rec \in SaveInputs :
        /\ db' = save_league_settings(db, rec)
        /\ TotalRows(db') <= MaxRows
        /\ lastSaved' = IF rec.key # Missing
                        THEN Remember(lastSaved, "league_settings", rec.key, rec.val)
                        ELSE lastSaved
        /\ UNCHANGED notDb

CallSaveTeam ==
    \E rec \in TeamInputs :
        LET out == save_team(db, rec)
        IN /\ db' = out.db
           /\ TotalRows(db') <= MaxRows
           /\ lastSaved' = IF out.raised THEN lastSaved
                           ELSE Remember(lastSaved, "teams", rec.key, <<rec.val, rec.stats>>)
           /\ UNCHANGED notDb

CallSaveLeagueStandings ==
    \E rec \in RecordInputs :
        /\ db' = save_league_standings(db, rec)
        /\ TotalRows(db') <= MaxRows
        /\ UNCHANGED <<lastSaved, notDb>>

CallSaveLeagueScoreboard ==
    \E rec \in RecordInputs :
        /\ db' = save_league_scoreboard(db, rec)
        /\ TotalRows(db') <= MaxRows
        /\ UNCHANGED <<lastSaved, notDb>>

CallSaveLeagueRoster ==
    \E rec \in RecordInputs :
        /\ db' = save_league_roster(db, rec)
        /\ TotalRows(db') <= MaxRows
        /\ UNCHANGED <<lastSaved, notDb>>

CallSaveLeaguePoints ==
    \E rec \in RecordInputs :
        /\ db' = save_league_points(db, rec)
        /\ TotalRows(db') <= MaxRows
        /\ UNCHANGED <<lastSaved, notDb>>

CallSaveLeagueSchedule ==
    \E rec \in RecordInputs :
        /\ db' = save_league_schedule(db, rec)
        /\ TotalRows(db') <= MaxRows
        /\ UNCHANGED <<lastSaved, notDb>>

CallSavePlayerStats ==
    \E rec \in RecordInputs :
        /\ db' = save_player_stats(db, rec)
        /\ TotalRows(db') <= MaxRows
        /\ UNCHANGED <<lastSaved, notDb>>

CallSaveLeagueDraftResults ==
    \E picks \in PickLists :
        /\ db' = save_league_draft_results(db, picks)
        /\ TotalRows(db') <= MaxRows
        /\ UNCHANGED <<lastSaved, notDb>>

NextKeyed ==
    \/ CallSavePlayer
    \/ CallSaveLeague
    \/ CallSaveGame
    \/ CallSaveLeagueSettings
    \/ CallSaveTeam

SpecKeyed == InitDb /\ [][NextKeyed]_vars

NextUpsert ==
    \/ CallSaveLeagueStandings
    \/ CallSaveLeagueScoreboard
    \/ CallSaveLeagueRoster
    \/ CallSaveLeaguePoints
    \/ CallSaveLeagueSchedule
    \/ CallSavePlayerStats
    \/ CallSaveLeagueDraftResults

SpecUpsert == InitDb /\ [][NextUpsert]_vars

\* C1: a second save of the same record (same league/team/week/pick/player,
\* same values) replaces the earlier row instead of adding another one: no
\* table written with INSERT OR REPLACE ever holds two rows for one record.
C1_ResaveReplaces ==
    \A t \in AutoIdTables : \A r1, r2 \in db[t] :
        (r1.key = r2.key /\ r1.val = r2.val) => r1 = r2

\* C2: each keyed table (players, teams, leagues, games, league_settings)
\* holds at most one row per key, and the row of a key carries the field
\* values of the most recent successful save for that key (no row when no
\* save for the key has succeeded).
C2_OneRowPerKeyLatestWins ==
    \A t \in KeyedTables : \A k \in Keys :
        LET rows == {r \in db[t] : r.key = k}
        IN /\ Cardinality(rows) <= 1
           /\ {r.val : r \in rows} = lastSaved[t][k]

\* C2's case: a player saved twice with different values (the second call
\* replaced the first one's row), another player stored beside it.
C2_Witness ==
    /\ lastSaved["players"]["k1"] = {"v2"}
    /\ lastSaved["players"]["k2"] = {"v1"}
    /\ db["players"] = {[id |-> 0, key |-> "k1", val |-> "v2"],
                        [id |-> 0, key |-> "k2", val |-> "v1"]}
    /\ Cardinality(db["teams"]) = 1

(***************************************************************************)
(* SpecGetPlayers: calls of get_players against a listing of gp.total      *)
(* players                                                                 *)
(***************************************************************************)
InitGetPlayers ==
    /\ gp \in [pc : {"ready"}, total : 0..MaxPlayers]
    /\ db = EmptyDb /\ lastSaved = NoHistory
    /\ dm = DmIdle /\ rb = RbIdle /\ ex = ExIdle /\ ui = UiIdle /\ mp = MpIdle
    /\ LoadersIdle

CallGetPlayers ==
    \E start \in 0..MaxPlayers, count \in 1..MaxPlayers,
       existing \in SUBSET Range(Listing(MaxPlayers)), fails \in BOOLEAN :
        /\ gp.pc \in {"ready", "done"}
        /\ gp' = [pc |-> "done", total |-> gp.total, start |-> start, count |-> count,
                  existing |-> existing,
                  result |-> get_players(Listing(gp.total), fails, start, count, existing)]
        /\ UNCHANGED <<db, lastSaved, dm, rb, ex, ui, mp, loaders>>

NextGetPlayers == CallGetPlayers

SpecGetPlayers == InitGetPlayers /\ [][NextGetPlayers]_vars

\* C5: get_players returns has_more = True exactly when the service still
\* holds at least one player at offset start + count.
C5_HasMoreIffPlayersRemain ==
    (gp.pc = "done" /\ ~gp.result.raised) =>
        (gp.result.has_more <=> gp.total > gp.start + gp.count)

(***************************************************************************)
(* SpecUpdate: calls of DataManager.update_data                            *)
(***************************************************************************)
\* A DataManager over a database file that may already hold a player.
InitUpdate ==
    /\ dm \in [pc : {"ready"}, hasApi : BOOLEAN, use_db : BOOLEAN,
               teams : ApiTeamLists, items : ApiItemLists]
    /\ db \in {EmptyDb, save_player(EmptyDb, [key |-> "k1", sport_code |-> "nfl", val |-> "v2"])}
    /\ lastSaved = NoHistory
    /\ rb = RbIdle /\ gp = GpIdle /\ ex = ExIdle /\ ui = UiIdle /\ mp = MpIdle
    /\ LoadersIdle

CallUpdateData ==
    /\ dm.pc = "ready"
    /\ \E dt \in DataTypes \cup {"all"} :
       \E fails \in SUBSET Relevant(dt), count \in 1..MaxItems :
       \E out \in {update_data(db, [hasApi |-> dm.hasApi, use_db |-> dm.use_db,
                                    teams |-> dm.teams, items |-> dm.items,
                                    fails |-> fails, count |-> count], dt)} :
        /\ db' = out.db
        /\ dm' = [pc |-> "done", hasApi |-> dm.hasApi, use_db |-> dm.use_db,
                  teams |-> dm.teams, items |-> dm.items,
                  data_type |-> dt, fails |-> fails,
                  result |-> [raised |-> out.raised, keys |-> out.keys,
                              status |-> out.status, sub |-> out.sub],
                  attempted |-> out.attempted, fetched |-> out.fetched]
        /\ UNCHANGED <<lastSaved, rb, gp, ex, ui, mp, loaders>>

NextUpdate == CallUpdateData

SpecUpdate == InitUpdate /\ [][NextUpdate]_vars

\* C3: a per-item failure never ends the run: when update_data has run the
\* teams update, save_team was attempted for every team get_teams returned.
C3_EveryItemAttempted ==
    (dm.pc = "done" /\ dm.hasApi /\ dm.use_db /\ dm.data_type \in {"teams", "all"})
        => dm.attempted = dm.fetched

\* C6: update_data never raises: whatever the data type and whichever API
\* call or save fails, it returns a dict that has a 'status' key.
C6_UpdateDataReturnsStatus ==
    dm.pc = "done" => (~dm.result.raised /\ "status" \in dm.result.keys)

\* C6's case: an "update all" call in which an API call raised (games) and a
\* save raised (teams), both turned into error dicts, beside a success.
C6_Witness ==
    /\ dm.pc = "done" /\ dm.data_type = "all"
    /\ dm.result.sub["games"] = "error"
    /\ dm.result.sub["teams"] = "error"
    /\ dm.result.sub["leagues"] = "success"
    /\ dm.result.status = "success"

\* C6's case for a single data type: the API call raised.
C6_WitnessSingle ==
    /\ dm.pc = "done" /\ dm.data_type = "players"
    /\ "get_players" \in dm.fails
    /\ dm.result.status = "error"

(***************************************************************************)
(* SpecRetry: calls of load_players_batch; rb.log holds the requests sent  *)
(* and the waits slept during the current call                             *)
(***************************************************************************)
InitRetry ==
    /\ rb = RbIdle
    /\ db = EmptyDb /\ lastSaved = NoHistory
    /\ dm = DmIdle /\ gp = GpIdle /\ ex = ExIdle /\ ui = UiIdle /\ mp = MpIdle
    /\ LoadersIdle

notRb == <<db, lastSaved, dm, gp, ex, ui, mp, loaders>>

\* load_players_batch is entered: retry_count = 0.
BatchCall ==
    /\ rb.pc \in {"idle", "returned"}
    /\ rb' = [pc |-> "request", retry_count |-> 0, log |-> <<>>, result |-> "none"]
    /\ UNCHANGED notRb

\* One pass of the while loop up to a return or a wait.
BatchRequest ==
    /\ rb.pc = "request"
    /\ \E outcome \in Outcomes :
        LET sent == Append(rb.log, [type |-> "request", amount |-> 0])
        IN IF outcome \in Retried /\ rb.retry_count < MaxRetries
           THEN rb' = [pc |-> "wait", retry_count |-> rb.retry_count + 1,
                       log |-> sent, result |-> "none"]
           ELSE rb' = [pc |-> "returned", retry_count |-> rb.retry_count, log |-> sent,
                       result |-> IF outcome = "ok" THEN "players" ELSE "None"]
    /\ UNCHANGED notRb

\* wait_with_backoff(retry_count), then the loop sends the request again.
BatchWait ==
    /\ rb.pc = "wait"
    /\ \E jitter \in 0..(JitterSteps - 1) :
        rb' = [rb EXCEPT !.pc = "request",
                         !.log = Append(@, [type |-> "wait",
                                            amount |-> WaitTime(rb.retry_count, jitter)])]
    /\ UNCHANGED notRb

NextRetry == BatchCall \/ BatchRequest \/ BatchWait

SpecRetry == InitRetry /\ [][NextRetry]_vars

\* The requests sent before position i of the log: all of them failed.
FailuresBefore(i) == Cardinality({j \in 1..(i - 1) : rb.log[j].type = "request"})

InitExtract ==
    /\ ex \in [pc : {"ready"}, payload : Payloads, week : Weeks, league_key : LeagueKeys]
    /\ db = EmptyDb /\ lastSaved = NoHistory
    /\ dm = DmIdle /\ rb = RbIdle /\ gp = GpIdle /\ ui = UiIdle /\ mp = MpIdle
    /\ LoadersIdle

CallExtract ==
    /\ ex.pc = "ready"
    /\ ex' = [pc |-> "done", payload |-> ex.payload, week |-> ex.week,
              league_key |-> ex.league_key,
              result |-> extract_player_stats(ex.payload, ex.week, ex.league_key)]
    /\ UNCHANGED <<db, lastSaved, dm, rb, gp, ui, mp, loaders>>

NextExtract == CallExtract

SpecExtract == InitExtract /\ [][NextExtract]_vars

\* The payload carries player_points.total as decimal text.
NumericTotal(p) ==
    p.shape = "pair" /\ p.points = "dict" /\ p.total.kind = "str"
        /\ ParseFloat(p.total.s).ok

\* C7: points and fan_points equal the numeric value of player_points.total;
\* percent_started and percent_owned equal the integers the payload gives; a
\* total of '-' or a non-numeric total yields points 0.0.
C7_PointsAndPercentsFromPayload ==
    ex.pc = "done" =>
        LET p == ex.payload
            r == ex.result
        IN /\ NumericTotal(p) =>
                  (r.points = ParseFloat(p.total.s).val /\ r.fan_points = r.points)
           /\ (p.shape = "pair" /\ p.percent_started.kind = "str"
                   /\ ParseInt(p.percent_started.s).ok)
                  => r.percent_started = ParseInt(p.percent_started.s).val
           /\ (p.shape = "pair" /\ p.percent_owned.kind = "str"
                   /\ ParseInt(p.percent_owned.s).ok)
                  => r.percent_owned = ParseInt(p.percent_owned.s).val
           /\ (p.shape = "pair" /\ p.points = "dict" /\ ~NumericTotal(p))
                  => r.points = Zero

\* C8: with a league key of game id 449 the result's week is the week
\* argument and its season is '2024', whatever the payload.
C8_WeekAndSeasonFromArguments ==
    (ex.pc = "done" /\ ex.league_key = <<"4", "4", "9", ".", "l", ".", "1">>)
        => (ex.result.week = ex.week /\ ex.result.season = "2024")

(***************************************************************************)
(* SpecDashboard: the user picks values in the widgets, the page runs its  *)
(* queries                                                                 *)
(***************************************************************************)
InitDashboard ==
    /\ ui = [UiIdle EXCEPT !.pc = "page"]
    /\ db = EmptyDb /\ lastSaved = NoHistory
    /\ dm = DmIdle /\ rb = RbIdle /\ gp = GpIdle /\ ex = ExIdle /\ mp = MpIdle
    /\ LoadersIdle

notUi == <<db, lastSaved, dm, rb, gp, ex, mp, loaders>>

\* seasons = load_seasons(); selected_season = st.selectbox(...)
LoadSeasons ==
    /\ ui.pc = "page"
    /\ \E season \in Seasons :
           ui' = [UiIdle EXCEPT !.pc = "page", !.season = season, !.stmt = SeasonsQuery]
    /\ UNCHANGED notUi

\* leagues = load_leagues(selected_season); selected_league = st.selectbox(...)
LoadLeagues ==
    /\ ui.pc = "page" /\ ui.season # "none"
    /\ \E league \in LeaguesOf(ui.season) :
           ui' = [UiIdle EXCEPT !.pc = "page", !.season = ui.season, !.league = league,
                                !.stmt = LeaguesQuery(ui.season)]
    /\ UNCHANGED notUi

LoadLeagueInfo ==
    /\ ui.pc = "page" /\ ui.league # "none"
    /\ ui' = [ui EXCEPT !.stmt = LeagueQuery(ui.league)]
    /\ UNCHANGED notUi

LoadScheduleTeams ==
    /\ ui.pc = "page" /\ ui.league # "none"
    /\ \E team \in TeamNames :
           ui' = [ui EXCEPT !.team = team, !.stmt = ScheduleTeamsQuery(ui.league)]
    /\ UNCHANGED notUi

LoadSchedule ==
    /\ ui.pc = "page" /\ ui.league # "none" /\ ui.team # "none"
    /\ ui' = [ui EXCEPT !.stmt = ScheduleQuery(ui.league, ui.team)]
    /\ UNCHANGED notUi

LoadGameWeeks ==
    /\ ui.pc = "page" /\ ui.league # "none"
    /\ \E weeks \in SUBSET GameWeeks, sort_order \in {"Latest First", "Earliest First"} :
           ui' = [ui EXCEPT !.weeks = weeks, !.sort_order = sort_order,
                            !.stmt = WeeksQuery(ui.league)]
    /\ UNCHANGED notUi

\* if selected_weeks: games_data = load_table_data(games_query)
LoadGames ==
    /\ ui.pc = "page" /\ ui.league # "none" /\ ui.weeks # {}
    /\ ui' = [ui EXCEPT !.stmt = GamesQuery(ui.league, ui.weeks, ui.sort_order)]
    /\ UNCHANGED notUi

NextDashboard ==
    \/ LoadSeasons
    \/ LoadLeagues
    \/ LoadLeagueInfo
    \/ LoadScheduleTeams
    \/ LoadSchedule
    \/ LoadGameWeeks
    \/ LoadGames

SpecDashboard == InitDashboard /\ [][NextDashboard]_vars

\* The texts of the values the widgets offer.
UiTexts ==
    Seasons \cup UNION {LeaguesOf(season) : season \in Seasons} \cup TeamNames
        \cup {Str(w) : w \in GameWeeks}

\* C9: no value chosen in the UI is part of the text of an executed
\* statement; such values appear among its bound parameters only.
C9_QueryTextFixed ==
    \A i \in 1..Len(ui.stmt.text) : ui.stmt.text[i] \notin UiTexts

(***************************************************************************)
(* SpecMissing: load_missing_players for one game code                     *)
(***************************************************************************)
InitMissing ==
    /\ \E total \in 0..MaxPlayers, wanted \in (SUBSET Range(AllPlayers)) \ {{}} :
           mp = [pc |-> "loop", listing |-> Listing(total), wanted |-> wanted,
                 needed |-> wanted, start |-> 0, consecutive_empty |-> 0,
                 api_failed |-> FALSE]
    /\ db = EmptyDb /\ lastSaved = NoHistory
    /\ dm = DmIdle /\ rb = RbIdle /\ gp = GpIdle /\ ex = ExIdle /\ ui = UiIdle
    /\ LoadersIdle

\* One pass of the while loop: load_players_batch, then either the empty
\* branch (count it, give up at three, else wait and ask again at the same
\* start) or the save branch (save, drop from the needed set, stop when
\* nothing is needed, else move start on by batch_size).
MissingBatch ==
    /\ mp.pc = "loop"
    /\ \E outcome \in {"page", "failed"} :
           LET processed_players ==
                   missing_players_batch(mp.listing, outcome, mp.start, batch_size, mp.needed)
               needed == mp.needed \ Range(processed_players)
           IN IF processed_players = <<>>
              THEN /\ mp' = [mp EXCEPT
                                !.consecutive_empty = mp.consecutive_empty + 1,
                                !.api_failed = mp.api_failed \/ outcome = "failed",
                                !.pc = IF mp.consecutive_empty + 1 >= 3 THEN "done"
                                       ELSE "loop"]
                   /\ db' = db
              ELSE /\ db' = SaveMissing(db, processed_players)
                   /\ mp' = [mp EXCEPT
                                !.consecutive_empty = 0,
                                !.needed = needed,
                                !.start = IF needed = {} THEN mp.start
                                          ELSE mp.start + batch_size,
                                !.pc = IF needed = {} THEN "done" ELSE "loop"]
    /\ UNCHANGED <<lastSaved, dm, rb, gp, ex, ui, loaders>>

NextMissing == MissingBatch

SpecMissing == InitMissing /\ [][NextMissing]_vars

SavedPlayers == {r.key : r \in db.players}

\* C10: when the run for a game code is over and no request failed, every
\* missing player key that the listing holds has been saved.
C10_ListedMissingPlayerSaved ==
    (mp.pc = "done" /\ ~mp.api_failed)
        => (mp.wanted \cap Range(mp.listing)) \subseteq SavedPlayers

(***************************************************************************)
(* SpecLoad: load_players_data, resumed on a players table that            *)
(* load_missing_players may have written to (players of the first page)    *)
(***************************************************************************)
InitLoad ==
    /\ \E total \in 0..MaxPlayers :
         \E stored \in SUBSET Range(Response(Listing(total), 0, batch_size).players) :
           /\ db = StoredPlayers(stored)
           /\ ld = [pc |-> "loop", listing |-> Listing(total),
                    start |-> Cardinality(stored), consecutive_empty |-> 0,
                    existing_player_keys |-> stored, history |-> <<>>,
                    api_failed |-> FALSE]
    /\ lastSaved = NoHistory
    /\ dm = DmIdle /\ rb = RbIdle /\ gp = GpIdle /\ ex = ExIdle /\ ui = UiIdle /\ mp = MpIdle
    /\ ro = RoIdle /\ lg = LgIdle /\ dr = DrIdle /\ tm = TmIdle

\* One pass of the while loop. history records, for each load, the offset
\* asked for and whether it came back empty.
LoadBatch ==
    /\ ld.pc = "loop"
    /\ \E outcome \in {"page", "failed"} :
         \E b \in {players_batch(ld.listing, outcome, ld.start, batch_size)} :
           IF b.players = <<>> \/ b.batch_count = 0
           THEN /\ ld' = [ld EXCEPT
                            !.consecutive_empty = ld.consecutive_empty + 1,
                            !.pc = IF GivesUp(ld.consecutive_empty + 1) THEN "done"
                                   ELSE "loop",
                            !.history = Append(ld.history,
                                               [start |-> ld.start, empty |-> TRUE]),
                            !.api_failed = ld.api_failed \/ outcome = "failed"]
                /\ db' = db
           ELSE \E saved \in {SaveNewPlayers(db, b.players, ld.existing_player_keys)} :
                /\ db' = saved.db
                /\ ld' = [ld EXCEPT
                            !.consecutive_empty = 0,
                            !.existing_player_keys = saved.existing_player_keys,
                            !.start = ld.start + b.batch_count,
                            !.history = Append(ld.history,
                                               [start |-> ld.start, empty |-> FALSE])]
    /\ UNCHANGED <<lastSaved, dm, rb, gp, ex, ui, mp, ro, lg, dr, tm>>

NextLoad == LoadBatch

SpecLoad == InitLoad /\ [][NextLoad]_vars

\* The number of empty loads at the end of the history.
RECURSIVE TrailingEmpty(_)
TrailingEmpty(h) ==
    IF h = <<>> \/ ~h[Len(h)].empty THEN 0
    ELSE 1 + TrailingEmpty(SubSeq(h, 1, Len(h) - 1))

\* C11: the loop is over exactly when the last three loads were empty; the
\* count of empty loads is the number of empty loads since the last load
\* that returned players (zero right after one); the load after an empty
\* load asks for the same offset.
C11_ThreeEmptyLoadsEndPaging ==
    ld.pc \in {"loop", "done"} =>
        /\ (ld.pc = "done") <=> (TrailingEmpty(ld.history) >= 3)
        /\ TrailingEmpty(ld.history) <= 3
        /\ ld.consecutive_empty = TrailingEmpty(ld.history)
        /\ \A i \in 1..(Len(ld.history) - 1) :
               ld.history[i].empty => ld.history[i + 1].start = ld.history[i].start

\* The loop has ended after an empty load, a load with players (which set
\* the count back to zero) and three more empty loads.
C11_Witness ==
    /\ ld.pc = "done"
    /\ \E i \in 1..Len(ld.history) : \E j \in (i + 1)..Len(ld.history) :
           ld.history[i].empty /\ ~ld.history[j].empty

InitRoster ==
    /\ ro = [pc |-> "open", file |-> EmptyRosters, working |-> EmptyRosters,
             saves |-> 0, last |-> NoSave,
             failed |-> [s \in RosterTeams \X RosterWeeks |-> NoSnapshot]]
    /\ db = EmptyDb /\ lastSaved = NoHistory
    /\ dm = DmIdle /\ rb = RbIdle /\ gp = GpIdle /\ ex = ExIdle /\ ui = UiIdle /\ mp = MpIdle
    /\ ld = LdIdle /\ lg = LgIdle /\ dr = DrIdle /\ tm = TmIdle

\* save_roster(db, league_key, team_key, roster, week); the caller logs a
\* raised exception and goes on. last keeps the call and the file's table
\* before it; failed keeps, per team and week, the file's rows at the time
\* of a failed save until a save for that team and week succeeds.
CallSaveRoster ==
    /\ ro.pc = "open" /\ ro.saves < MaxSaves
    /\ \E team \in RosterTeams, week \in RosterWeeks, roster \in Rosters :
         \E out \in {save_roster([file |-> ro.file, working |-> ro.working],
                                 team, week, roster)} :
           ro' = [ro EXCEPT
                    !.file = out.file, !.working = out.working,
                    !.saves = ro.saves + 1,
                    !.last = [team |-> team, week |-> week, roster |-> roster,
                              raised |-> out.raised, before |-> ro.file],
                    !.failed[<<team, week>>] =
                        IF ~out.raised THEN NoSnapshot
                        ELSE IF ro.failed[<<team, week>>].taken
                             THEN ro.failed[<<team, week>>]
                             ELSE [taken |-> TRUE, rows |-> RowsOf(ro.file, team, week)]]
    /\ UNCHANGED <<db, lastSaved, dm, rb, gp, ex, ui, mp, ld, lg, dr, tm>>

\* finally: db.close(): what is pending is rolled back.
CloseRosterConnection ==
    /\ ro.pc = "open"
    /\ ro' = [ro EXCEPT !.pc = "closed", !.working = ro.file]
    /\ UNCHANGED <<db, lastSaved, dm, rb, gp, ex, ui, mp, ld, lg, dr, tm>>

NextRoster == CallSaveRoster \/ CloseRosterConnection

SpecRoster == InitRoster /\ [][NextRoster]_vars

\* C13: after a save_roster that succeeded, the table holds for its team and
\* week exactly one row per entry of the roster passed in, and the rows of
\* every other team and week are those the table held before the call.
C13_RosterReplacedOthersUnchanged ==
    (ro.pc = "open" /\ ro.last.team # "none" /\ ~ro.last.raised) =>
        LET mine == RowsOf(ro.file, ro.last.team, ro.last.week)
        IN /\ Cardinality(mine) = Len(ro.last.roster)
           /\ \A p \in Range(ro.last.roster) :
                  Cardinality({r \in mine : r.player = p})
                      = Cardinality({i \in 1..Len(ro.last.roster) : ro.last.roster[i] = p})
           /\ \A team \in RosterTeams, week \in RosterWeeks :
                  <<team, week>> # <<ro.last.team, ro.last.week>>
                      => RowsOf(ro.file, team, week) = RowsOf(ro.last.before, team, week)

\* C14: while the last save for a team and week is a failed one, the table
\* holds for them the rows it held before that save.
C14_FailedSaveKeepsOldRoster ==
    ro.pc \in {"open", "closed"} =>
        \A team \in RosterTeams, week \in RosterWeeks :
            ro.failed[<<team, week>>].taken
                => RowsOf(ro.file, team, week) = ro.failed[<<team, week>>].rows

(***************************************************************************)
(* SpecTeam: calls of save_team, each remembered with the tables before it *)
(***************************************************************************)
TeamTables == {"teams", "team_managers", "team_stats"}

\* Cap on the number of rows in the tables save_team writes.
MaxTeamRows == 2

InitTeam ==
    /\ db = EmptyDb /\ lastSaved = NoHistory
    /\ tm = [pc |-> "called", rec |-> [key |-> Missing, sport_code |-> Missing,
                                          val |-> "v1", stats |-> "absent"],
             raised |-> TRUE, before |-> EmptyDb]
    /\ dm = DmIdle /\ rb = RbIdle /\ gp = GpIdle /\ ex = ExIdle /\ ui = UiIdle /\ mp = MpIdle
    /\ ld = LdIdle /\ ro = RoIdle /\ lg = LgIdle /\ dr = DrIdle

SaveTeamCall ==
    /\ tm.pc = "called"
    /\ \E rec \in TeamInputs :
         \E out \in {save_team(db, rec)} :
           /\ db' = out.db
           /\ TotalRows(db') <= MaxTeamRows
           /\ tm' = [pc |-> "called", rec |-> rec, raised |-> out.raised, before |-> db]
    /\ UNCHANGED <<lastSaved, dm, rb, gp, ex, ui, mp, ld, ro, lg, dr>>

NextTeam == SaveTeamCall

SpecTeam == InitTeam /\ [][NextTeam]_vars

\* The records one of whose inserts fails.
InsertFails(rec) == ~ValidEntity(rec) \/ rec.stats \in {"badmanager", "statfails"}

\* C15: a save_team call one of whose inserts fails raises, and the teams,
\* team_managers and team_stats tables are what they were before the call.
C15_SaveTeamAllOrNothing ==
    (tm.pc = "called" /\ InsertFails(tm.rec)) =>
        /\ tm.raised
        /\ \A t \in TeamTables : db[t] = tm.before[t]

\* A call failed on a team_stats insert, after it had written the teams and
\* the manager row, on tables that already held a team.
C15_Witness ==
    /\ tm.pc = "called" /\ tm.raised /\ tm.rec.stats = "statfails"
    /\ tm.rec.key # Missing /\ tm.rec.sport_code # Missing
    /\ db["teams"] # {} /\ db["team_managers"] # {}

(***************************************************************************)
(* SpecGames: any sequence of save_league_game calls                       *)
(***************************************************************************)
InitGames ==
    /\ lg = [pc |-> "open", table |-> EmptyGames,
             latest |-> [c \in Combinations |-> {}]]
    /\ db = EmptyDb /\ lastSaved = NoHistory
    /\ dm = DmIdle /\ rb = RbIdle /\ gp = GpIdle /\ ex = ExIdle /\ ui = UiIdle /\ mp = MpIdle
    /\ ld = LdIdle /\ ro = RoIdle /\ dr = DrIdle /\ tm = TmIdle

\* latest keeps, per combination, the values of the latest call for it.
CallSaveLeagueGame ==
    /\ lg.pc = "open"
    /\ \E game_data \in GameInputs :
         \E table \in {save_league_game(lg.table, game_data)} :
           /\ Cardinality(table.rows) <= MaxGames
           /\ lg' = [lg EXCEPT
                       !.table = table,
                       !.latest = IF game_data.league_key = Missing THEN lg.latest
                                  ELSE [lg.latest EXCEPT ![Combination(game_data)] =
                                                             {game_data.val}]]
    /\ UNCHANGED <<db, lastSaved, dm, rb, gp, ex, ui, mp, ld, ro, dr, tm>>

NextGames == CallSaveLeagueGame

SpecGames == InitGames /\ [][NextGames]_vars

GamesOf(c) ==
    {r \in lg.table.rows :
        <<r.league_key, r.week, r.home_team_key, r.away_team_key>> = c}

\* C16: league_games holds at most one row per combination of league_key,
\* week, home_team_key and away_team_key, and a combination saved at least
\* once has its row carrying the values of the latest call for it.
C16_OneGameRowPerCombination ==
    lg.pc = "open" =>
        \A c \in Combinations :
            /\ Cardinality(GamesOf(c)) <= 1
            /\ lg.latest[c] # {} => {r.val : r \in GamesOf(c)} = lg.latest[c]

(***************************************************************************)
(* SpecDraft: load_draft_data's calls of load_draft_results on one         *)
(* connection, then db.close()                                             *)
(***************************************************************************)
InitDraft ==
    /\ dr = [pc |-> "open", file |-> EmptyDraft, working |-> EmptyDraft,
             loads |-> 0, result |-> TRUE, written_by_failed |-> {}]
    /\ db = EmptyDb /\ lastSaved = NoHistory
    /\ dm = DmIdle /\ rb = RbIdle /\ gp = GpIdle /\ ex = ExIdle /\ ui = UiIdle /\ mp = MpIdle
    /\ ld = LdIdle /\ ro = RoIdle /\ lg = LgIdle /\ tm = TmIdle

\* success = draft_loader.load_draft_results(league_key, season).
\* written_by_failed collects the ids of the rows written during calls that
\* returned False.
CallLoadDraftResults ==
    /\ dr.pc = "open" /\ dr.loads < MaxLoads
    /\ \E league_key \in DraftLeagues, response \in DraftResponses :
         \E out \in {load_draft_results([file |-> dr.file, working |-> dr.working],
                                        league_key, response)} :
           dr' = [dr EXCEPT
                    !.file = out.file, !.working = out.working,
                    !.loads = dr.loads + 1, !.result = out.result,
                    !.written_by_failed =
                        IF out.result THEN dr.written_by_failed
                        ELSE dr.written_by_failed
                                 \cup {r.id : r \in out.working.rows \ dr.working.rows}]
    /\ UNCHANGED <<db, lastSaved, dm, rb, gp, ex, ui, mp, ld, ro, lg, tm>>

\* finally: db.close(): what is pending is rolled back.
CloseDraftConnection ==
    /\ dr.pc = "open"
    /\ dr' = [dr EXCEPT !.pc = "closed", !.working = dr.file]
    /\ UNCHANGED <<db, lastSaved, dm, rb, gp, ex, ui, mp, ld, ro, lg, tm>>

NextDraft == CallLoadDraftResults \/ CloseDraftConnection

SpecDraft == InitDraft /\ [][NextDraft]_vars

\* C17: no row written during a load_draft_results call that returned False
\* is in the committed league_draft_results table.
C17_FailedDraftLoadNeverCommitted ==
    dr.pc \in {"open", "closed"} =>
        \A r \in dr.file.rows : r.id \notin dr.written_by_failed

(***************************************************************************)
(* SpecRate: the requests load_players_data sends and the sleeps between   *)
(* them.  One request is marked as the start of a 60-second window;        *)
(* ld.elapsed is the time since it was sent and ld.in_window the number of *)
(* requests sent in the window so far.                                     *)
(***************************************************************************)
InitRate ==
    /\ ld = [pc |-> "loop", retry_count |-> 0, consecutive_empty |-> 0,
             marked |-> FALSE, elapsed |-> 0, in_window |-> 0]
    /\ db = EmptyDb /\ lastSaved = NoHistory
    /\ dm = DmIdle /\ rb = RbIdle /\ gp = GpIdle /\ ex = ExIdle /\ ui = UiIdle /\ mp = MpIdle
    /\ ro = RoIdle /\ lg = LgIdle /\ dr = DrIdle /\ tm = TmIdle

\* The requests of one make_request call that fall into the window, the
\* first sent at time t and each taking latency.
InWindow(t, latency, gets) ==
    Cardinality({i \in 0..(gets - 1) : t + i * latency < Window})

\* One yahoo_api.make_request(endpoint) of load_players_batch, sent at
\* ld.elapsed, and the sleep that follows it; pc, retry_count and
\* consecutive_empty are the values the code goes on with.
Requested(mark, unauthorized, latency, slept, pc, retry_count, consecutive_empty) ==
    LET marked == ld.marked \/ mark
        gets == make_request_gets(unauthorized)
    IN [pc |-> pc, retry_count |-> retry_count,
        consecutive_empty |-> consecutive_empty,
        marked |-> marked,
        elapsed |-> IF marked THEN ld.elapsed + gets * latency + slept ELSE 0,
        in_window |-> IF marked THEN ld.in_window + InWindow(ld.elapsed, latency, gets)
                      ELSE 0]

CanRequest == ld.pc = "loop" /\ (ld.marked => ld.elapsed < Window)

Marks == IF ld.marked THEN {FALSE} ELSE BOOLEAN

\* The request is answered with a page of players: the page is processed,
\* consecutive_empty = 0, time.sleep(2.1).
PageRequest ==
    /\ CanRequest
    /\ \E mark \in Marks, unauthorized \in BOOLEAN, latency \in Latencies :
        ld' = Requested(mark, unauthorized, latency, BatchSleep, "loop", 0, 0)
    /\ UNCHANGED <<db, lastSaved, dm, rb, gp, ex, ui, mp, ro, lg, dr, tm>>

\* The request fails in one of the ways load_players_batch retries (all of
\* Retried are handled alike), retries are left: wait_with_backoff(retry_count).
RetriedRequest ==
    /\ CanRequest
    /\ ld.retry_count < MaxRetries
    /\ \E mark \in Marks, unauthorized \in BOOLEAN, latency \in Latencies,
          jitter \in 0..(JitterSteps - 1) :
        ld' = Requested(mark, unauthorized, latency,
                        BackoffTicks(ld.retry_count + 1, jitter),
                        "loop", ld.retry_count + 1, ld.consecutive_empty)
    /\ UNCHANGED <<db, lastSaved, dm, rb, gp, ex, ui, mp, ro, lg, dr, tm>>

\* load_players_batch returns (None, 0), after a body without players or
\* after the last retry: the paging loop counts an empty load and breaks or
\* calls wait_with_backoff(consecutive_empty).
EmptyRequest ==
    /\ CanRequest
    /\ \E outcome \in {"noplayers"} \cup (IF ld.retry_count = MaxRetries
                                          THEN {"exception"} ELSE {}),
          mark \in Marks, unauthorized \in BOOLEAN, latency \in Latencies :
        LET ce == ld.consecutive_empty + 1
        IN IF GivesUp(ce)
           THEN ld' = Requested(mark, unauthorized, latency, 0, "done", 0, ce)
           ELSE \E jitter \in 0..(JitterSteps - 1) :
                  ld' = Requested(mark, unauthorized, latency,
                                  BackoffTicks(ce, jitter), "loop", 0, ce)
    /\ UNCHANGED <<db, lastSaved, dm, rb, gp, ex, ui, mp, ro, lg, dr, tm>>

NextRate == PageRequest \/ RetriedRequest \/ EmptyRequest

SpecRate == InitRate /\ [][NextRate]_vars

====
